---- MODULE Spec2Model ----
(***************************************************************************)
(* TempMon (src/tools/TempMon/tempmon.cpp): a polling loop that reads one  *)
(* temperature per configured GPIO pin, compares it with the pin's         *)
(* threshold and drives the pin to its configured output value; on a       *)
(* termination signal one more pass over the pins is made.                 *)
(*                                                                         *)
(* long double values are represented as integers in thousandths of a      *)
(* degree Celsius (the unit of the raw sensor file), with one extra value  *)
(* for NaN.  Every comparison of two such values goes through the          *)
(* NaN-aware operators below.                                              *)
(***************************************************************************)
EXTENDS Integers, Sequences, FiniteSets, TLC

\* ------------------------------------------------------------------ bounds
\* Largest number of pin descriptors in a configuration file.
MaxPins == 2
\* Raw sensor values range over 0..MaxRaw (thousandths of a degree).
MaxRaw == 1
\* The comparisons of TEMPR_COMP_OPS are exercised on -MaxEval..MaxEval
\* (thousandths of a degree) and NaN.
MaxEval == 2

\* ------------------------------------------------------- program constants
\* for (unsigned char c = 0; keep_running == 1 && c < 10; ++c)
SLEEP_SLICES == 10
\* std::nan(""): the value read_temp_degC returns when the file cannot be opened
NaN == -999999
\* p.last_read_temp_degC = 0.0 in parse_config
INITIAL_LAST_READ == 0
\* wiringPi levels
LOW == 0
HIGH == 1

RawTemps == 0..MaxRaw
\* wiringPi pin numbers the configurations use: as many as there can be pins
PinIds == 1..MaxPins
Levels == {LOW, HIGH}

\* ---------------------------------------------------- long double, NaN-aware
isnan(x) == x = NaN

\* operator!= on long double: true as soon as one operand is NaN
fne(a, b) == isnan(a) \/ isnan(b) \/ a # b

\* The keys of TEMPR_COMP_OPS
SupportedOps == {"=", "<", ">", "<=", ">="}

\* TEMPR_COMP_OPS.count(op)
TEMPR_COMP_OPS_count(op) == IF op \in SupportedOps THEN 1 ELSE 0

\* Variant of TEMPR_COMP_OPS_at whose "=" compares the representations, so
\* that NaN equals NaN
TEMPR_COMP_OPS_at_Bitwise(op, curr, target) ==
    CASE op = "="  -> curr = target
      [] op = "<"  -> ~isnan(curr) /\ ~isnan(target) /\ curr < target
      [] op = ">"  -> ~isnan(curr) /\ ~isnan(target) /\ curr > target
      [] op = "<=" -> ~isnan(curr) /\ ~isnan(target) /\ curr <= target
      [] op = ">=" -> ~isnan(curr) /\ ~isnan(target) /\ curr >= target

\* TEMPR_COMP_OPS.at(op)(curr, target); every comparison with NaN is false.
\* Never applied to an operator outside SupportedOps (at() would throw).
TEMPR_COMP_OPS_at(op, curr, target) ==
    /\ ~isnan(curr)
    /\ ~isnan(target)
    /\ CASE op = "="  -> curr = target
         [] op = "<"  -> curr < target
         [] op = ">"  -> curr > target
         [] op = "<=" -> curr <= target
         [] op = ">=" -> curr >= target

\* ------------------------------------------------------------ configuration
\* The operators the configurations use: one that holds below the threshold,
\* one that holds from the threshold on, and one TEMPR_COMP_OPS does not have
Conditions == {"<", ">=", "!="}
Thresholds == {1}
Sources == {"A"}

\* One element of the JSON array of the configuration file
PinDescriptors ==
    [wpi_pin : PinIds, output_val : BOOLEAN, condition : Conditions,
     temperature_degC : Thresholds, match_on_terminate : BOOLEAN,
     temperature_src : Sources]

\* What the configuration path can hold: no readable file, or an array of
\* at most MaxPins descriptors (the empty array included).  The program is
\* symmetric under renaming the pins and under exchanging LOW and HIGH
\* together with every output_val, so the first descriptor is taken to name
\* pin 1 with output_val true; later descriptors are unrestricted (the same
\* pin and the opposite output_val included).
ConfigFiles ==
    {[open |-> FALSE, pins |-> <<>>]} \cup
    {[open |-> TRUE, pins |-> s] :
        s \in {t \in UNION {[1..k -> PinDescriptors] : k \in 0..MaxPins} :
                  Len(t) > 0 => t[1].wpi_pin = 1 /\ t[1].output_val}}

\* The pins a configuration names; the levels of the others play no part
UsedPins(fs) == {fs.pins[k].wpi_pin : k \in 1..Len(fs.pins)}

\* parse_config: one GpioPin per descriptor, last_read_temp_degC = 0.0
GpioPinOf(o) ==
    [wpi_pin_number      |-> o.wpi_pin,
     output_value        |-> o.output_val,
     condition           |-> o.condition,
     active_on_terminate |-> o.match_on_terminate,
     condition_temp_degC |-> o.temperature_degC,
     temp_degC_source    |-> o.temperature_src,
     last_read_temp_degC |-> INITIAL_LAST_READ]

parse_config(fs) == [k \in 1..Len(fs.pins) |-> GpioPinOf(fs.pins[k])]

\* ------------------------------------------------------ temperature source
\* What a temperature source file can hold at the moment it is read.
SrcContents ==
    {[open |-> FALSE, parsed |-> FALSE, raw |-> 0],
     [open |-> TRUE, parsed |-> FALSE, raw |-> 0]} \cup
    {[open |-> TRUE, parsed |-> TRUE, raw |-> r] : r \in RawTemps}

\* read_temp_degC: NaN when the file cannot be opened; otherwise raw / 1000.0,
\* where raw_temp stays 0 when no integer can be extracted.
read_temp_degC(f) ==
    IF ~f.open THEN NaN
    ELSE IF f.parsed THEN f.raw ELSE 0

\* ------------------------------------------------------------- output sink
\* digitalRead(pin): the level currently applied to the pin
digitalRead(lv, pin) == lv[pin]

\* digitalWrite(pin, value): LOW for 0, HIGH for anything else
digitalWrite(lv, pin, value) ==
    [lv EXCEPT ![pin] = IF value = 0 THEN LOW ELSE HIGH]

\* ------------------------------------------------- the body of the pin loop
\* Variant of ReadFailureSkip with == in place of !=
ReadFailureSkip_Eq(p, temp_degC) ==
    ~fne(p.last_read_temp_degC, temp_degC) /\ isnan(temp_degC)

\* line 141: the failed read that is logged and skips the rest of the body
ReadFailureSkip(p, temp_degC) ==
    fne(p.last_read_temp_degC, temp_degC) /\ isnan(temp_degC)

\* Variant of UnsupportedSkip that never skips
UnsupportedSkip_Never(p) == FALSE

\* line 150: the operator is not a key of TEMPR_COMP_OPS
UnsupportedSkip(p) == TEMPR_COMP_OPS_count(p.condition) < 1

\* line 159
terminate_match(p, kr) == p.active_on_terminate /\ kr = 0

\* lines 160-161, right operand of ||: evaluated only when terminate_match
\* is false; at() throws std::out_of_range for a missing key
ConditionThrows(p, temp_degC, kr) ==
    /\ ~terminate_match(p, kr)
    /\ fne(p.last_read_temp_degC, temp_degC)
    /\ p.condition \notin SupportedOps

\* Variant of ShouldApply without the termination override
ShouldApply_NoTerminate(p, temp_degC, kr) ==
    /\ fne(p.last_read_temp_degC, temp_degC)
    /\ TEMPR_COMP_OPS_at(p.condition, temp_degC, p.condition_temp_degC)

\* Variant of ShouldApply without the comparison with the last reading
ShouldApply_NoThrottle(p, temp_degC, kr) ==
    \/ terminate_match(p, kr)
    \/ TEMPR_COMP_OPS_at(p.condition, temp_degC, p.condition_temp_degC)

\* lines 160-161: the condition of the if
ShouldApply(p, temp_degC, kr) ==
    \/ terminate_match(p, kr)
    \/ /\ fne(p.last_read_temp_degC, temp_degC)
       /\ TEMPR_COMP_OPS_at(p.condition, temp_degC, p.condition_temp_degC)

\* Variant of outp_val with the value negated
outp_val_Negated(p) == IF p.output_value THEN 0 ELSE 1

\* line 163: static_cast<int>(p.output_value)
outp_val(p) == IF p.output_value THEN 1 ELSE 0

\* Variant of SinkPin that always uses the first pin of the vector
SinkPin_First(pins, k) == pins[1].wpi_pin_number

\* lines 164-168: the pin the sink calls are made on
SinkPin(pins, k) == pins[k].wpi_pin_number

\* Variant of MustWrite that writes whatever the level read back
MustWrite_Always(curr_outp_val, outp) == TRUE

\* line 167
MustWrite(curr_outp_val, outp) == curr_outp_val # outp

\* What one pass of the loop body does for pin k when read_temp_degC returned
\* temp_degC, keep_running is kr and the sink levels are lv.
\*   outcome : "read_fail" (lines 141-148), "unsupported" (150-157),
\*             "throw" (at() threw), "change" (166-174), "none"
\*   readback: the value digitalRead returned, -1 when it was not called
\*   written : the value passed to digitalWrite, -1 when it was not called
\*   wpin    : the pin digitalWrite was called on, 0 when it was not called
\*   term    : the log line carries TERMINATION TRIGGERED
\*   stored  : line 178 was reached
PinBody(pins, k, temp_degC, kr, lv) ==
    LET p == pins[k]
        skip(o) == [outcome |-> o, readback |-> -1, written |-> -1, wpin |-> 0,
                    term |-> FALSE, stored |-> FALSE, lv |-> lv]
    IN  IF ReadFailureSkip(p, temp_degC) THEN skip("read_fail")
        ELSE IF UnsupportedSkip(p) THEN skip("unsupported")
        ELSE IF ConditionThrows(p, temp_degC, kr) THEN skip("throw")
        ELSE IF ShouldApply(p, temp_degC, kr)
        THEN LET curr == digitalRead(lv, SinkPin(pins, k))
             IN  IF MustWrite(curr, outp_val(p))
                 THEN [outcome |-> "change", readback |-> curr,
                       written |-> outp_val(p), wpin |-> SinkPin(pins, k),
                       term |-> terminate_match(p, kr), stored |-> TRUE,
                       lv |-> digitalWrite(lv, SinkPin(pins, k), outp_val(p))]
                 ELSE [outcome |-> "none", readback |-> curr, written |-> -1,
                       wpin |-> 0, term |-> FALSE, stored |-> TRUE, lv |-> lv]
        ELSE [outcome |-> "none", readback |-> -1, written |-> -1, wpin |-> 0,
              term |-> FALSE, stored |-> TRUE, lv |-> lv]

\* Variant of StoreLast that stores the reading in every pin
StoreLast_All(pins, k, temp_degC) ==
    [j \in 1..Len(pins) |-> [pins[j] EXCEPT !.last_read_temp_degC = temp_degC]]

\* line 178
StoreLast(pins, k, temp_degC) ==
    [pins EXCEPT ![k].last_read_temp_degC = temp_degC]

\* -------------------------------------------------------------------- state
VARIABLES
    config_file,    \* what the configuration path holds (main, line 96)
    pin_outputs,    \* std::vector<GpioPin> pin_outputs
    level,          \* the level applied to each wiringPi pin (the sink)
    keep_running,   \* static volatile sig_atomic_t keep_running
    break_loop,     \* bool break_loop
    pc,             \* position of main: "start", "loop_top", "pins", "sleep",
                    \* "done", "exit" (startup failure), "aborted" (uncaught throw)
    i,              \* index into pin_outputs of the range-for at line 137
    c,              \* unsigned char c of the sleep loop
    exit_code,      \* value returned by main, -1 while it runs
    hw,             \* observer: a wiringPi call has been made
    lastOp,         \* observer: what the last step did, when it was a pin body
    tick,           \* observer: the ticks started and the pins they visited
    sigAt,          \* observer: where main was when the signal arrived
    prev,           \* observer: per pin, its previous pass of the loop body
    eval            \* one call of an element of TEMPR_COMP_OPS: its operator,
                    \* its arguments and, once made, its result

vars == <<config_file, pin_outputs, level, keep_running, break_loop, pc, i, c,
          exit_code, hw, lastOp, tick, sigAt, prev, eval>>

NoOp == [idx |-> 0]
NoEval == [op |-> "=", curr |-> 0, target |-> 0, done |-> FALSE, result |-> FALSE]
\* prev[k] is valid while the level of pin k's output has not been changed,
\* by anything but pin k's own pass, since that pass
NoPrev == [valid |-> FALSE, temp |-> 0, kr |-> 1]

\* Saturating count for the observers: 0, 1, "2 or more"
Inc(n) == IF n >= 2 THEN 2 ELSE n + 1

NoWrites == [wr |-> [k \in 1..MaxPins |-> 0], wrPin |-> [q \in PinIds |-> 0]]
FreshTick == [visited |-> {}] @@ NoWrites

Init ==
    /\ config_file \in ConfigFiles
    /\ pin_outputs = <<>>
    /\ level \in [PinIds -> Levels]
    /\ \A q \in PinIds \ UsedPins(config_file) : level[q] = LOW
    /\ keep_running = 1
    /\ break_loop = FALSE
    /\ pc = "start"
    /\ i = 0
    /\ c = 0
    /\ exit_code = -1
    /\ hw = FALSE
    /\ lastOp = NoOp
    /\ tick = [afterSig |-> 0] @@ FreshTick
    /\ sigAt = "none"
    /\ prev = [k \in 1..MaxPins |-> NoPrev]
    /\ eval = NoEval

\* ------------------------------------------------------------------ startup
\* Variant of NoPins that never finds the vector empty
NoPins_Never(v) == FALSE

\* line 107: pin_outputs.size() == 0
NoPins(v) == Len(v) = 0

\* lines 96-102: the configuration file cannot be opened
ConfigUnreadable ==
    /\ pc = "start"
    /\ ~config_file.open
    /\ pc' = "exit"
    /\ exit_code' = 1
    /\ UNCHANGED <<eval, sigAt, config_file, pin_outputs, level, keep_running, break_loop,
                   i, c, hw, lastOp, tick, prev>>

\* lines 104-112: the configuration holds no pin
ConfigEmpty ==
    /\ pc = "start"
    /\ config_file.open
    /\ NoPins(parse_config(config_file))
    /\ pin_outputs' = parse_config(config_file)
    /\ pc' = "exit"
    /\ exit_code' = 2
    /\ UNCHANGED <<eval, sigAt, config_file, level, keep_running, break_loop, i, c, hw,
                   lastOp, tick, prev>>

\* lines 104-129: wiringPiSetup, pinMode(OUTPUT) on every pin, the signal
\* handlers installed, break_loop = false
Startup ==
    /\ pc = "start"
    /\ config_file.open
    /\ ~NoPins(parse_config(config_file))
    /\ pin_outputs' = parse_config(config_file)
    /\ hw' = TRUE
    /\ break_loop' = FALSE
    /\ pc' = "loop_top"
    /\ UNCHANGED <<eval, sigAt, config_file, level, keep_running, i, c, exit_code, lastOp,
                   tick, prev>>

\* ---------------------------------------------------------------- main loop
\* Variant of BreakLoopAt that never sets break_loop
BreakLoopAt_Never(kr, bl) == bl

\* lines 133-134: if (keep_running == 0) { break_loop = true; }
BreakLoopAt(kr, bl) == IF kr = 0 THEN TRUE ELSE bl

\* lines 131-137: a pass of the do-while body begins
LoopTop ==
    /\ pc = "loop_top"
    /\ break_loop' = BreakLoopAt(keep_running, break_loop)
    /\ pc' = "pins"
    /\ i' = 1
    /\ lastOp' = NoOp
    /\ tick' = [afterSig |-> IF keep_running = 0 THEN Inc(tick.afterSig)
                             ELSE tick.afterSig] @@ FreshTick
    /\ UNCHANGED <<eval, sigAt, config_file, pin_outputs, level, keep_running, c,
                   exit_code, hw, prev>>

\* The observers' record of one pass of the loop body
OpRecord(k, temp_degC, r) ==
    [idx |-> k, temp |-> temp_degC, kr |-> keep_running,
     lastBefore |-> pin_outputs[k].last_read_temp_degC,
     levelBefore |-> level[pin_outputs[k].wpi_pin_number],
     outcome |-> r.outcome, readback |-> r.readback, written |-> r.written,
     wpin |-> r.wpin, term |-> r.term, prev |-> prev[k]]

\* lines 137-179: the loop body for pin i, with the file of its source
\* holding f when it is read
ProcessPin(f) ==
    /\ pc = "pins"
    /\ i <= Len(pin_outputs)
    /\ LET temp_degC == read_temp_degC(f)
           r == PinBody(pin_outputs, i, temp_degC, keep_running, level)
       IN  /\ level' = r.lv
           /\ pin_outputs' = IF r.stored
                             THEN StoreLast(pin_outputs, i, temp_degC)
                             ELSE pin_outputs
           /\ pc' = IF r.outcome = "throw" THEN "aborted" ELSE "pins"
           /\ i' = i + 1
           /\ lastOp' = OpRecord(i, temp_degC, r)
           /\ tick' = [tick EXCEPT
                  !.visited = @ \cup {i},
                  !.wr[i] = IF r.written # -1 THEN Inc(@) ELSE @,
                  !.wrPin = IF r.written # -1
                            THEN [@ EXCEPT ![r.wpin] = Inc(@)] ELSE @]
           /\ prev' = [k \in 1..MaxPins |->
                  IF k = i
                  THEN [valid |-> TRUE, temp |-> temp_degC, kr |-> keep_running]
                  ELSE IF /\ k <= Len(pin_outputs)
                          /\ r.lv[pin_outputs[k].wpi_pin_number]
                               # level[pin_outputs[k].wpi_pin_number]
                       THEN NoPrev
                       ELSE prev[k]]
    /\ UNCHANGED <<eval, sigAt, config_file, keep_running, break_loop, c, exit_code, hw>>

\* line 137: the range-for is exhausted; line 181: c = 0
EndTick ==
    /\ pc = "pins"
    /\ i > Len(pin_outputs)
    /\ pc' = "sleep"
    /\ i' = 0
    /\ c' = 0
    /\ lastOp' = NoOp
    /\ tick' = [afterSig |-> tick.afterSig, visited |-> tick.visited] @@ NoWrites
    /\ UNCHANGED <<eval, sigAt, config_file, pin_outputs, level, keep_running, break_loop,
                   exit_code, hw, prev>>

\* Variant of SleepGuard that does not test keep_running
SleepGuard_NoFlag(kr, cnt) == cnt < SLEEP_SLICES

\* line 181: the condition of the sleep loop
SleepGuard(kr, cnt) == kr = 1 /\ cnt < SLEEP_SLICES

\* lines 181-183: one 200 ms slice
SleepSlice ==
    /\ pc = "sleep"
    /\ SleepGuard(keep_running, c)
    /\ c' = c + 1
    /\ UNCHANGED <<eval, sigAt, config_file, pin_outputs, level, keep_running, break_loop,
                   pc, i, exit_code, hw, lastOp, tick, prev>>

\* Variant of SleepExitsLoop that leaves as soon as the flag is set
SleepExitsLoop_OnSignal(bl, kr) == bl \/ kr = 0

\* Variant of SleepExitsLoop that leaves after the first pass
SleepExitsLoop_Always(bl, kr) == TRUE

\* line 185: while (!break_loop) is left
SleepExitsLoop(bl, kr) == bl

\* lines 181 and 185: the sleep loop ends and the do-while tests break_loop
SleepExit ==
    /\ pc = "sleep"
    /\ ~SleepGuard(keep_running, c)
    /\ ~SleepExitsLoop(break_loop, keep_running)
    /\ pc' = "loop_top"
    /\ c' = 0
    /\ UNCHANGED <<eval, sigAt, config_file, pin_outputs, level, keep_running, break_loop,
                   i, exit_code, hw, lastOp, tick, prev>>

\* lines 185-188: the loop is left, main returns 0
Stop ==
    /\ pc = "sleep"
    /\ ~SleepGuard(keep_running, c)
    /\ SleepExitsLoop(break_loop, keep_running)
    /\ pc' = "done"
    /\ c' = 0
    /\ exit_code' = 0
    /\ UNCHANGED <<eval, sigAt, config_file, pin_outputs, level, keep_running, break_loop,
                   i, hw, lastOp, tick, prev>>

\* ------------------------------------------------------------- environment
\* While main is in its loop: the handlers of line 119 are installed
InLoop == pc \in {"loop_top", "pins", "sleep"}

\* line 119: signal_handler, run for SIGHUP, SIGINT, SIGQUIT, SIGTERM, SIGXFSZ
Signal ==
    /\ InLoop
    /\ keep_running = 1
    /\ keep_running' = 0
    /\ sigAt' = pc
    /\ lastOp' = NoOp
    /\ UNCHANGED <<eval, config_file, pin_outputs, level, break_loop, pc, i, c,
                   exit_code, hw, tick, prev>>

\* Something other than this program changes the level of a pin
ExternalChange(q) ==
    /\ InLoop
    /\ q \in UsedPins(config_file)
    /\ level' = [level EXCEPT ![q] = IF @ = LOW THEN HIGH ELSE LOW]
    /\ lastOp' = NoOp
    /\ prev' = [k \in 1..MaxPins |->
           IF k <= Len(pin_outputs) /\ pin_outputs[k].wpi_pin_number = q
           THEN NoPrev ELSE prev[k]]
    /\ UNCHANGED <<eval, sigAt, config_file, pin_outputs, keep_running, break_loop, pc, i,
                   c, exit_code, hw, tick>>

Next ==
    \/ ConfigUnreadable
    \/ ConfigEmpty
    \/ Startup
    \/ LoopTop
    \/ \E f \in SrcContents : ProcessPin(f)
    \/ EndTick
    \/ SleepSlice
    \/ SleepExit
    \/ Stop
    \/ Signal
    \/ \E q \in PinIds : ExternalChange(q)

Spec == Init /\ [][Next]_vars

\* The steps of main's loop.  main is a running thread whose every step ends
\* (a file read, a wiringPi call, a 200 ms sleep), so a step that stays
\* possible is eventually taken; signals and outside changes of a pin may or
\* may not happen.
MainStep ==
    \/ LoopTop
    \/ \E f \in SrcContents : ProcessPin(f)
    \/ EndTick
    \/ SleepSlice
    \/ SleepExit
    \/ Stop

\* Whether and when the loop ends is decided by lines 133, 181 and 185 alone,
\* which read nothing of a pin; the fair specification therefore starts from
\* the configurations whose descriptors all ask for the level to be forced on
\* termination, the ones for which the final pass has work to do.
LiveInit ==
    /\ Init
    /\ \A k \in 1..Len(config_file.pins) : config_file.pins[k].match_on_terminate

FairSpec == LiveInit /\ [][Next]_vars /\ WF_vars(MainStep)

\* ------------------------------------------------- TEMPR_COMP_OPS on its own
\* The long double values a comparison is called with
EvalValues == (-MaxEval..MaxEval) \cup {NaN}

\* A call of TEMPR_COMP_OPS.at(op) is about to be made with any operator of
\* the map and any two values; the rest of the program is not running.
EvalInit ==
    /\ eval \in [op : SupportedOps, curr : EvalValues, target : EvalValues,
                 done : {FALSE}, result : {FALSE}]
    /\ config_file = [open |-> FALSE, pins |-> <<>>]
    /\ pin_outputs = <<>>
    /\ level = [q \in PinIds |-> LOW]
    /\ keep_running = 1
    /\ break_loop = FALSE
    /\ pc = "eval"
    /\ i = 0
    /\ c = 0
    /\ exit_code = -1
    /\ hw = FALSE
    /\ lastOp = NoOp
    /\ tick = [afterSig |-> 0] @@ FreshTick
    /\ sigAt = "none"
    /\ prev = [k \in 1..MaxPins |-> NoPrev]

\* lines 29-35: the lambda stored under eval.op is called
Evaluate ==
    /\ pc = "eval"
    /\ ~eval.done
    /\ eval' = [eval EXCEPT
           !.done = TRUE,
           !.result = TEMPR_COMP_OPS_at(eval.op, eval.curr, eval.target)]
    /\ UNCHANGED <<config_file, pin_outputs, level, keep_running, break_loop, pc,
                   i, c, exit_code, hw, lastOp, tick, sigAt, prev>>

EvalNext == Evaluate

EvalSpec == EvalInit /\ [][EvalNext]_vars

\* ================================================================== claims
\* The pin whose loop body ran in the last step, and the level its
\* output_value stands for
OpPin == pin_outputs[lastOp.idx]
LevelOf(b) == IF b THEN HIGH ELSE LOW
AllPins == 1..Len(pin_outputs)
DistinctPinNumbers ==
    \A j, k \in AllPins :
        j # k => pin_outputs[j].wpi_pin_number # pin_outputs[k].wpi_pin_number

\* C1: once keep_running is 0, exactly one tick starts afterwards; it is the
\* tick with break_loop set, every pin body of it runs with keep_running = 0,
\* every tick (the one in progress when the signal arrives included) visits
\* every pin before the sleep loop is reached, and main then returns.
C1_OneFinalTick ==
    /\ tick.afterSig <= 1
    /\ break_loop <=> tick.afterSig = 1
    /\ break_loop => keep_running = 0
    /\ (lastOp.idx # 0 /\ break_loop) => lastOp.kr = 0
    /\ pc \in {"sleep", "done"} => tick.visited = AllPins
    /\ pc = "done" => tick.afterSig = 1 /\ keep_running = 0
    /\ pc # "aborted"

\* C1 witness: the signal arrived while a tick was in progress, that tick
\* was completed, one more tick ran and main returned
C1_Witness ==
    /\ pc = "done"
    /\ sigAt = "pins"
    /\ tick.afterSig = 1
    /\ Len(pin_outputs) = 2
    /\ tick.visited = {1, 2}

\* C2: a pin with active_on_terminate and a supported operator, processed
\* with keep_running = 0 after a successful read, is at its output_value
\* afterwards whatever the comparison and the last reading say, and the
\* write that brings it there is logged as TERMINATION TRIGGERED.
C2_TerminationPrecedence ==
    (/\ lastOp.idx # 0
     /\ OpPin.active_on_terminate
     /\ OpPin.condition \in SupportedOps
     /\ lastOp.kr = 0
     /\ ~isnan(lastOp.temp))
    => /\ level[OpPin.wpi_pin_number] = LevelOf(OpPin.output_value)
       /\ lastOp.written # -1 => lastOp.term

\* C2 witness: the comparison fails and the reading is the last reading, and
\* the pin is still written, termination-triggered
C2_Witness ==
    /\ lastOp.idx # 0
    /\ OpPin.active_on_terminate
    /\ lastOp.kr = 0
    /\ ~isnan(lastOp.temp)
    /\ lastOp.temp = lastOp.lastBefore
    /\ ~TEMPR_COMP_OPS_at(OpPin.condition, lastOp.temp, OpPin.condition_temp_degC)
    /\ lastOp.written = outp_val(OpPin)
    /\ lastOp.levelBefore # LevelOf(OpPin.output_value)
    /\ lastOp.term

\* C3: digitalWrite is called only after digitalRead on the same pass, with a
\* value different from the one digitalRead returned.
C3_WriteOnlyOnDifference ==
    (lastOp.idx # 0 /\ lastOp.written # -1)
    => /\ lastOp.readback # -1
       /\ lastOp.written # lastOp.readback
       /\ lastOp.readback = lastOp.levelBefore

\* C3 witness: the pin is read back at the desired level and is not written
C3_Witness ==
    /\ lastOp.idx # 0
    /\ lastOp.readback = outp_val(OpPin)
    /\ lastOp.written = -1

\* C4: in one tick a configured pin is written at most once; with distinct
\* pin numbers so is every output.
C4_AtMostOneWritePerTick ==
    /\ \A k \in 1..MaxPins : tick.wr[k] <= 1
    /\ DistinctPinNumbers => \A q \in PinIds : tick.wrPin[q] <= 1

\* C4 witness: both pins of a configuration were written in the same tick
C4_Witness ==
    /\ Len(pin_outputs) = 2
    /\ DistinctPinNumbers
    /\ tick.wr[1] = 1
    /\ tick.wr[2] = 1

\* C5: without a termination match, a reading equal to the last reading
\* leaves the pin unwritten.
C5_Throttle ==
    (/\ lastOp.idx # 0
     /\ ~terminate_match(OpPin, lastOp.kr)
     /\ ~fne(lastOp.temp, lastOp.lastBefore))
    => lastOp.written = -1 /\ lastOp.readback = -1

\* C5 witness: the first reading of a pin is 0.0, the comparison holds for it
\* and the pin is not at its output_value, yet nothing is written
C5_Witness ==
    /\ lastOp.idx # 0
    /\ ~lastOp.prev.valid
    /\ lastOp.temp = INITIAL_LAST_READ
    /\ lastOp.lastBefore = INITIAL_LAST_READ
    /\ OpPin.condition \in SupportedOps
    /\ TEMPR_COMP_OPS_at(OpPin.condition, lastOp.temp, OpPin.condition_temp_degC)
    /\ lastOp.levelBefore # LevelOf(OpPin.output_value)
    /\ level[OpPin.wpi_pin_number] = lastOp.levelBefore
    /\ lastOp.written = -1

\* C6: a pin processed twice in a row with the same reading and the same
\* value of keep_running, its output untouched in between but for its own
\* write, is not written the second time.
C6_SecondTickNoWrite ==
    (/\ lastOp.idx # 0
     /\ lastOp.prev.valid
     /\ lastOp.prev.temp = lastOp.temp
     /\ lastOp.prev.kr = lastOp.kr)
    => lastOp.written = -1

\* C6 witness: the second of two passes with keep_running = 0 on a pin with
\* active_on_terminate: the pin is read back and left alone
C6_Witness ==
    /\ lastOp.idx # 0
    /\ lastOp.prev.valid
    /\ lastOp.prev.temp = lastOp.temp
    /\ lastOp.prev.kr = 0
    /\ lastOp.kr = 0
    /\ OpPin.active_on_terminate
    /\ lastOp.readback # -1
    /\ lastOp.written = -1

\* C7: after a pin has been processed, its last_read_temp_degC is the reading
\* of that pass (NaN for a failed read).
C7_LastReadingStored ==
    lastOp.idx # 0 => OpPin.last_read_temp_degC = lastOp.temp

\* C8: of two consecutive failed reads of a pin, the second is not logged.
C8_FailureLoggedOnce ==
    (/\ lastOp.idx # 0
     /\ lastOp.prev.valid
     /\ isnan(lastOp.prev.temp)
     /\ isnan(lastOp.temp))
    => lastOp.outcome # "read_fail"

\* C9: a pin whose operator is not supported is never read back nor written,
\* is reported as unsupported whenever its read succeeds, and the loop goes
\* on to the next pin.
C9_UnsupportedInert ==
    /\ \A k \in AllPins :
          pin_outputs[k].condition \notin SupportedOps => tick.wr[k] = 0
    /\ (lastOp.idx # 0 /\ OpPin.condition \notin SupportedOps)
       => /\ lastOp.written = -1
          /\ lastOp.readback = -1
          /\ ~isnan(lastOp.temp) => lastOp.outcome = "unsupported"
          /\ pc = "pins"
          /\ i = lastOp.idx + 1

\* C9 witness: the final tick, active_on_terminate set, the pin away from its
\* output_value: reported as unsupported and left alone
C9_Witness ==
    /\ lastOp.idx # 0
    /\ OpPin.condition \notin SupportedOps
    /\ OpPin.active_on_terminate
    /\ break_loop
    /\ lastOp.kr = 0
    /\ lastOp.outcome = "unsupported"
    /\ level[OpPin.wpi_pin_number] # LevelOf(OpPin.output_value)

\* C10: a failed read skips the output logic: no digitalRead, no
\* digitalWrite, the level of the pin unchanged.
C10_FailedReadSkipsOutput ==
    (lastOp.idx # 0 /\ isnan(lastOp.temp))
    => /\ lastOp.outcome = "read_fail"
       /\ lastOp.readback = -1
       /\ lastOp.written = -1
       /\ level[OpPin.wpi_pin_number] = lastOp.levelBefore

\* C10 witness: a failed read in the final tick on a pin with
\* active_on_terminate that is not at its output_value
C10_Witness ==
    /\ lastOp.idx # 0
    /\ isnan(lastOp.temp)
    /\ break_loop
    /\ OpPin.active_on_terminate
    /\ OpPin.condition \in SupportedOps
    /\ level[OpPin.wpi_pin_number] # LevelOf(OpPin.output_value)

\* C11: a pass of the loop body for one pin leaves every other pin's
\* last_read_temp_degC and every pin's configuration as they were, changes no
\* output but the pin's own, and whatever its outcome (failed read and
\* unsupported operator included) the loop goes on with the next pin.
C11_PinIsolation ==
    [][lastOp'.idx # 0 =>
         LET k == lastOp'.idx
         IN  /\ Len(pin_outputs') = Len(pin_outputs)
             /\ \A j \in AllPins \ {k} : pin_outputs'[j] = pin_outputs[j]
             /\ pin_outputs'[k] =
                  [pin_outputs[k] EXCEPT
                     !.last_read_temp_degC = pin_outputs'[k].last_read_temp_degC]
             /\ \A q \in PinIds \ {pin_outputs[k].wpi_pin_number} :
                  level'[q] = level[q]
             /\ lastOp'.wpin \in {0, pin_outputs[k].wpi_pin_number}
             /\ pc' = "pins"
             /\ i' = k + 1
    ]_vars

\* C11 witness: in one tick the first pin's read failed and the second pin,
\* on another output, was written
C11_Witness ==
    /\ lastOp.idx = 2
    /\ tick.visited = {1, 2}
    /\ DistinctPinNumbers
    /\ isnan(prev[1].temp)
    /\ pin_outputs[1].last_read_temp_degC = INITIAL_LAST_READ
    /\ lastOp.written # -1
    /\ pin_outputs[2].last_read_temp_degC = lastOp.temp

\* C12: main returns 1 when the configuration file cannot be opened and 2 when
\* it holds no pin; in both cases the loop is never entered and no wiringPi
\* call is made.
C12_StartupFailure ==
    /\ (~config_file.open \/ Len(config_file.pins) = 0)
       => /\ pc \in {"start", "exit"}
          /\ ~hw
          /\ keep_running = 1
          /\ tick.afterSig = 0 /\ tick.visited = {}
    /\ pc = "exit"
       => /\ exit_code = (IF config_file.open THEN 2 ELSE 1)
          /\ config_file.open => Len(config_file.pins) = 0
    /\ exit_code \in {1, 2} => pc = "exit"

\* C12 witness: the configuration holds an empty array and main has returned 2
C12_Witness ==
    /\ pc = "exit"
    /\ config_file.open
    /\ exit_code = 2
    /\ ~hw

\* C13: once the loop has been entered main returns only after keep_running
\* was set to 0, with status 0; no outcome of a pin body ends the loop.
C13_OnlySignalStops ==
    /\ hw => pc \in {"loop_top", "pins", "sleep", "done"}
    /\ hw => exit_code = (IF pc = "done" THEN 0 ELSE -1)
    /\ pc = "done" => keep_running = 0 /\ sigAt # "none"
    /\ keep_running = 1 => (hw => InLoop)

\* C13 witness: a read fails, the loop goes on into its sleep, the signal
\* arrives there and main returns 0
C13_Witness ==
    /\ pc = "done"
    /\ exit_code = 0
    /\ sigAt = "sleep"
    /\ prev[1].valid
    /\ isnan(prev[1].temp)

\* C14: under FairSpec, once keep_running is 0 the loop begins its final pass
\* (break_loop set) and then main returns.
C14_ShutdownTerminates ==
    /\ (keep_running = 0 /\ ~break_loop) ~> (break_loop /\ pc = "pins")
    /\ (keep_running = 0) ~> (pc = "done" /\ break_loop /\ exit_code = 0)

\* C14 witness: the signal arrived between line 133 and the first pin body,
\* and main has returned after a further pass
C14_Witness ==
    /\ pc = "done"
    /\ sigAt = "pins"
    /\ break_loop
    /\ exit_code = 0
    /\ \A k \in AllPins : prev[k].valid => prev[k].kr = 0

\* C15: a pass that follows another while keep_running is 1 starts only after
\* all SLEEP_SLICES slices; a slice starts only while keep_running is 1, so
\* nothing is waited between the flag being set and the final pass; and no
\* slice follows the final pass.
C15_Cadence ==
    [][/\ (pc = "sleep" /\ pc' = "loop_top" /\ keep_running = 1)
            => c = SLEEP_SLICES
       /\ c' > c => (pc = "sleep" /\ keep_running = 1 /\ c' = c + 1)
       /\ (pc = "sleep" /\ keep_running = 0) => (c' = c \/ pc' # "sleep")
       /\ (pc = "sleep" /\ break_loop) => (c = 0 /\ c' = 0)
       /\ c \in 0..SLEEP_SLICES
      ]_vars

\* C15 witness: the signal arrived in the middle of the wait, which stops
\* there
C15_Witness ==
    /\ pc = "sleep"
    /\ keep_running = 0
    /\ sigAt = "sleep"
    /\ ~break_loop
    /\ c > 0
    /\ c < SLEEP_SLICES

\* The sign of a difference, and the signs of current - threshold for which
\* each comparison holds in ordinary arithmetic
Sign(d) == IF d < 0 THEN -1 ELSE IF d > 0 THEN 1 ELSE 0
HoldingSigns(op) ==
    CASE op = "="  -> {0}
      [] op = "<"  -> {-1}
      [] op = ">"  -> {1}
      [] op = "<=" -> {-1, 0}
      [] op = ">=" -> {0, 1}

\* C16: for each of the five operators and every pair of values, the stored
\* comparison returns what ordinary arithmetic says of current against
\* threshold, and false as soon as one of the two is NaN, "=" included.
C16_ConditionEvaluator ==
    eval.done =>
        /\ eval.op \in SupportedOps
        /\ IF isnan(eval.curr) \/ isnan(eval.target)
           THEN eval.result = FALSE
           ELSE eval.result = (Sign(eval.curr - eval.target) \in HoldingSigns(eval.op))

\* C16 witness: "=" has been called with NaN on both sides and returned false
C16_Witness ==
    /\ eval.done
    /\ eval.op = "="
    /\ isnan(eval.curr)
    /\ isnan(eval.target)
    /\ ~eval.result

\* C17: every pass of the loop body in a tick uses the value keep_running had
\* at line 133 of that tick, so a write logged TERMINATION TRIGGERED is made
\* only in a tick that began with break_loop set.
C17_ShuttingDownFixedPerTick ==
    (lastOp.idx # 0 /\ lastOp.term) =>
        /\ break_loop
        /\ tick.afterSig > 0

\* C18: when main has returned after a signal, every pin with
\* active_on_terminate and an operator of TEMPR_COMP_OPS is at its
\* output_value, whatever was read, provided the pin numbers are distinct and
\* nothing else changed the pin since its last pass.
C18_ForcedLevelOnShutdown ==
    (pc = "done" /\ DistinctPinNumbers) =>
        \A k \in AllPins :
            (/\ pin_outputs[k].active_on_terminate
             /\ pin_outputs[k].condition \in SupportedOps
             /\ prev[k].valid)
            => level[pin_outputs[k].wpi_pin_number]
                 = LevelOf(pin_outputs[k].output_value)

\* C19: when the previous pass of a pin failed to read and this pass reads a
\* value that satisfies the pin's condition, the pass leaves the pin at its
\* output_value, also when the value equals the one last stored.
C19_RecoveryAfterFailedRead ==
    (/\ lastOp.idx # 0
     /\ lastOp.prev.valid
     /\ isnan(lastOp.prev.temp)
     /\ ~isnan(lastOp.temp)
     /\ OpPin.condition \in SupportedOps
     /\ TEMPR_COMP_OPS_at(OpPin.condition, lastOp.temp, OpPin.condition_temp_degC))
    => level[OpPin.wpi_pin_number] = LevelOf(OpPin.output_value)

\* C20: a write of the loop is made on the pin of the descriptor being
\* processed and carries that descriptor's output_value; a pass that finds
\* the pin at its output_value leaves it there, whether the condition holds
\* or not and whether keep_running is 1 or 0.
C20_WritesCarryOutputValue ==
    lastOp.idx # 0 =>
        /\ lastOp.written # -1 =>
              /\ lastOp.written = LevelOf(OpPin.output_value)
              /\ lastOp.wpin = OpPin.wpi_pin_number
              /\ lastOp.levelBefore # LevelOf(OpPin.output_value)
              /\ level[OpPin.wpi_pin_number] = LevelOf(OpPin.output_value)
        /\ lastOp.levelBefore = LevelOf(OpPin.output_value) =>
              /\ lastOp.written = -1
              /\ level[OpPin.wpi_pin_number] = LevelOf(OpPin.output_value)

\* C20 witness: the previous reading of the pin satisfied its condition, the
\* pin is at its output_value, this reading no longer satisfies the
\* condition, and the pass has written nothing
C20_Witness ==
    /\ lastOp.idx # 0
    /\ OpPin.condition \in SupportedOps
    /\ lastOp.prev.valid
    /\ lastOp.lastBefore = lastOp.prev.temp
    /\ TEMPR_COMP_OPS_at(OpPin.condition, lastOp.prev.temp, OpPin.condition_temp_degC)
    /\ ~isnan(lastOp.temp)
    /\ ~TEMPR_COMP_OPS_at(OpPin.condition, lastOp.temp, OpPin.condition_temp_degC)
    /\ lastOp.levelBefore = LevelOf(OpPin.output_value)
    /\ lastOp.outcome = "none"
    /\ level[OpPin.wpi_pin_number] = LevelOf(OpPin.output_value)

====
